---- MODULE Spec2Model ----
(***************************************************************************)
(* add-debug-to-extractors.py: read market.ts, run the re.sub passes over  *)
(* the buffer, print, write the buffer back, print.                        *)
(*                                                                         *)
(* The text buffer is a sequence of lexical tokens.  A token is one of the *)
(* literal texts the regular expressions of the script mention, a maximal  *)
(* run of whitespace, or some other text; a regular expression is matched  *)
(* token by token, leftmost first, the lazy `.*?' (re.DOTALL) taking as    *)
(* few tokens as possible, and re.sub replacing every non-overlapping      *)
(* match from left to right.                                               *)
(***************************************************************************)
EXTENDS Integers, Sequences, FiniteSets

VARIABLES
    pc,        \* the statement the run is at
    run,       \* number of the current invocation of the script
    exists,    \* whether the file at the path exists
    writable,  \* whether the path can be opened for writing
    disk,      \* the file's content
    content,   \* the script's variable `content'
    rOpen,     \* the handle of `with open(..., 'r')' is open
    wOpen,     \* the handle of `with open(..., 'w')' is open
    rAcq,      \* number of successful open(..., 'r') of this run
    wAcq,      \* number of successful open(..., 'w') of this run
    passIdx,   \* the re.sub pass about to run (1-based)
    out,       \* lines printed by this run
    hist,      \* values of `content' in this run: as read, then after each pass
    log        \* one record per finished earlier run

vars == <<pc, run, exists, writable, disk, content, rOpen, wOpen, rAcq, wAcq,
          passIdx, out, hist, log>>

(* ------------------------------ bounds -------------------------------- *)
MaxRuns == 2
MaxTail == 1

(* ------------------------------ tokens -------------------------------- *)
SigOld == "function extractGoldPrice(text: string): number | null {"
SigNew == "function extractGoldPrice(text: string): { price: number | null; method: string } {"
Cmt1 == "// Pattern 1: Look for 4-digit price in gold range with $ symbol"
Cmt2 == "// Pattern 2: Look for 4-digit number in gold range"
Cmt3 == "// Pattern 3: Look for \"gold\" followed by 4-digit price"
Cmt4 == "// Pattern 4: Look for price before \"gold\""
Chk == "if (price >= 2000 && price <= 5000) {"
RetPrice == "return price;"
Tag1 == "return { price, method: 'gold_dollar_pattern' };"
Tag2 == "return { price, method: 'gold_four_digit_pattern' };"
Tag3 == "return { price, method: 'gold_keyword_after' };"
Tag4 == "return { price, method: 'gold_keyword_before' };"
RetNullClose == "return null;\n}"
RetNoMatchClose == "return { price: null, method: 'no_pattern_matched' };\n}"
WsNl2 == "\n  "
WsOther == "\n      "
FnOther == "function extractOther(text: string): number | null {"
Stmt == "const price = parseFloat(m[1]);"

MsgUpdated == "Updated extractGoldPrice function"
MsgAll == "All extraction functions updated with debug support"

\* \s+ : one maximal run of whitespace
Ws == {WsNl2, WsOther}
\* the tokens in which the text `function extractGoldPrice' occurs
GoldSig == {SigOld, SigNew}
Cmts == {Cmt1, Cmt2, Cmt3, Cmt4}

(* --------------------------- the re.sub passes ------------------------ *)
\* A pass: `pre' (literal tokens that open the match and are kept), `gap'
\* (whether a lazy .*? follows), `post' (the tokens that close the match),
\* `keep' (how many tokens of post lie inside group 1 and are kept), `repl'
\* (what replaces the remaining tokens of post).
SigPass ==
    [pre |-> <<>>, gap |-> FALSE, post |-> <<{SigOld}>>, keep |-> 0,
     repl |-> <<SigNew>>]

CmtOf(k) == <<Cmt1, Cmt2, Cmt3, Cmt4>>[k]

MethodTag(k) == <<Tag1, Tag2, Tag3, Tag4>>[k]

TagPass(k) ==
    [pre |-> <<{CmtOf(k)}>>, gap |-> TRUE,
     post |-> <<{Chk}, Ws, {RetPrice}>>, keep |-> 2,
     repl |-> <<MethodTag(k)>>]

FinalPass ==
    [pre |-> <<GoldSig>>, gap |-> TRUE, post |-> <<Ws, {RetNullClose}>>,
     keep |-> 0, repl |-> <<WsNl2, RetNoMatchClose>>]

\* the list without the final-return pass
PassesFive == <<SigPass, TagPass(1), TagPass(2), TagPass(3), TagPass(4)>>

\* the re.sub calls of lines 14, 21, 29, 37, 45 and 53, in order
Passes == <<SigPass, TagPass(1), TagPass(2), TagPass(3), TagPass(4), FinalPass>>

NumPasses == Len(Passes)

(* ------------------------------ matching ------------------------------ *)
SetMin(S) == CHOOSE x \in S : \A y \in S : x <= y

\* the token sets `pat' match buf at positions j, j+1, ...
SeqAt(pat, buf, j) ==
    /\ j + Len(pat) - 1 <= Len(buf)
    /\ \A m \in 1..Len(pat) : buf[j + m - 1] \in pat[m]

\* positions where `post' can start for a match that starts at i
PostStarts(p, buf, i) ==
    {j \in (i + Len(p.pre))..Len(buf) :
        /\ SeqAt(p.post, buf, j)
        /\ (p.gap \/ j = i + Len(p.pre))}

SetMax(S) == CHOOSE x \in S : \A y \in S : x >= y

\* a greedy gap (.* for .*?) takes the farthest position
MatchPostGreedy(p, buf, i) ==
    IF SeqAt(p.pre, buf, i) /\ PostStarts(p, buf, i) # {}
    THEN SetMax(PostStarts(p, buf, i))
    ELSE 0

\* where `post' starts in the match of p that starts at i; 0 when p does not
\* match at i.  The lazy gap takes the nearest position.
MatchPost(p, buf, i) ==
    IF SeqAt(p.pre, buf, i) /\ PostStarts(p, buf, i) # {}
    THEN SetMin(PostStarts(p, buf, i))
    ELSE 0

HasMatch(p, buf) == \E i \in 1..Len(buf) : MatchPost(p, buf, i) # 0

RECURSIVE SubFrom(_, _, _)
\* re.sub(p, repl, buf) from position i on: scan left to right, replace the
\* match found at the scan position and go on behind it.
SubFrom(p, buf, i) ==
    IF i > Len(buf) THEN <<>>
    ELSE LET j == MatchPost(p, buf, i) IN
         IF j = 0
         THEN <<buf[i]>> \o SubFrom(p, buf, i + 1)
         ELSE SubSeq(buf, i, j + p.keep - 1) \o p.repl
                 \o SubFrom(p, buf, j + Len(p.post))

Sub(p, buf) == SubFrom(p, buf, 1)

(* ------------------------------- inputs ------------------------------- *)
SigChoices == {<<SigOld>>, <<SigNew>>, <<Stmt>>}

BlockChoices(k) ==
    { <<CmtOf(k), Stmt, Chk, WsOther, RetPrice>>,
      <<CmtOf(k), Stmt>>,
      <<>> }

FinalChoices ==
    { <<WsNl2, RetNullClose>>, <<WsOther, RetNullClose>>, <<>> }

TailFn == { <<FnOther, WsNl2, RetNullClose>>,
            <<FnOther, Chk, WsOther, RetPrice, WsNl2, RetNullClose>> }

RECURSIVE Tails(_)
Tails(n) ==
    IF n = 0 THEN {<<>>}
    ELSE Tails(n - 1) \cup
         {t \o f : t \in Tails(n - 1), f \in TailFn}

Inputs ==
    { s \o b1 \o b2 \o b3 \o b4 \o f \o t :
        s \in SigChoices, b1 \in BlockChoices(1), b2 \in BlockChoices(2),
        b3 \in BlockChoices(3), b4 \in BlockChoices(4), f \in FinalChoices,
        t \in Tails(MaxTail) }

(* ------------------------------- actions ------------------------------ *)
Init ==
    /\ pc = "open_r"
    /\ run = 1
    /\ exists \in BOOLEAN
    /\ writable \in BOOLEAN
    /\ disk \in (IF exists THEN Inputs ELSE {<<>>})
    /\ content = <<>>
    /\ rOpen = FALSE
    /\ wOpen = FALSE
    /\ rAcq = 0
    /\ wAcq = 0
    /\ passIdx = 0
    /\ out = <<>>
    /\ hist = <<>>
    /\ log = <<>>

\* an open that does not fail on a missing file
OpenReadLenient ==
    /\ pc = "open_r"
    /\ pc' = "read"
    /\ rOpen' = TRUE
    /\ rAcq' = rAcq + 1
    /\ UNCHANGED <<run, exists, writable, disk, content, wOpen, wAcq, passIdx,
                   out, hist, log>>

\* line 10: with open(path, 'r') as f  -- FileNotFoundError ends the run
OpenRead ==
    /\ pc = "open_r"
    /\ IF exists
       THEN /\ pc' = "read"
            /\ rOpen' = TRUE
            /\ rAcq' = rAcq + 1
       ELSE /\ pc' = "failed"
            /\ UNCHANGED <<rOpen, rAcq>>
    /\ UNCHANGED <<run, exists, writable, disk, content, wOpen, wAcq, passIdx,
                   out, hist, log>>

\* line 11: content = f.read()
ReadAll ==
    /\ pc = "read"
    /\ content' = disk
    /\ hist' = <<disk>>
    /\ pc' = "close_r"
    /\ UNCHANGED <<run, exists, writable, disk, rOpen, wOpen, rAcq, wAcq,
                   passIdx, out, log>>

\* a read handle that is never closed (open without with)
CloseReadLeaking ==
    /\ pc = "close_r"
    /\ pc' = "sub"
    /\ passIdx' = 1
    /\ UNCHANGED <<run, exists, writable, disk, content, rOpen, wOpen, rAcq,
                   wAcq, out, hist, log>>

\* end of the first with block: the handle is closed
CloseRead ==
    /\ pc = "close_r"
    /\ rOpen' = FALSE
    /\ pc' = "sub"
    /\ passIdx' = 1
    /\ UNCHANGED <<run, exists, writable, disk, content, wOpen, rAcq, wAcq,
                   out, hist, log>>

\* a pass that raises when its pattern does not match
ApplyPassChecked ==
    /\ pc = "sub"
    /\ passIdx <= NumPasses
    /\ IF HasMatch(Passes[passIdx], content)
       THEN /\ content' = Sub(Passes[passIdx], content)
            /\ hist' = Append(hist, content')
            /\ passIdx' = passIdx + 1
            /\ pc' = IF passIdx = NumPasses THEN "print1" ELSE "sub"
       ELSE /\ pc' = "failed"
            /\ UNCHANGED <<content, hist, passIdx>>
    /\ UNCHANGED <<run, exists, writable, disk, rOpen, wOpen, rAcq, wAcq, out,
                   log>>

\* lines 14-58: content = re.sub(...), one pass per step
ApplyPass ==
    /\ pc = "sub"
    /\ passIdx <= NumPasses
    /\ content' = Sub(Passes[passIdx], content)
    /\ hist' = Append(hist, content')
    /\ passIdx' = passIdx + 1
    /\ pc' = IF passIdx = NumPasses THEN "print1" ELSE "sub"
    /\ UNCHANGED <<run, exists, writable, disk, rOpen, wOpen, rAcq, wAcq, out,
                   log>>

\* a message printed only when some pass changed the buffer
PrintUpdatedIfChanged ==
    /\ pc = "print1"
    /\ out' = IF content # hist[1] THEN Append(out, MsgUpdated) ELSE out
    /\ pc' = "open_w"
    /\ UNCHANGED <<run, exists, writable, disk, content, rOpen, wOpen, rAcq,
                   wAcq, passIdx, hist, log>>

\* line 60: print("Updated extractGoldPrice function")
PrintUpdated ==
    /\ pc = "print1"
    /\ out' = Append(out, MsgUpdated)
    /\ pc' = "open_w"
    /\ UNCHANGED <<run, exists, writable, disk, content, rOpen, wOpen, rAcq,
                   wAcq, passIdx, hist, log>>

\* the error of open(path, 'w') caught and ignored
OpenWriteSwallow ==
    /\ pc = "open_w"
    /\ IF writable
       THEN /\ pc' = "write"
            /\ wOpen' = TRUE
            /\ wAcq' = wAcq + 1
            /\ exists' = TRUE
            /\ disk' = <<>>
       ELSE /\ pc' = "print2"
            /\ UNCHANGED <<wOpen, wAcq, exists, disk>>
    /\ UNCHANGED <<run, writable, content, rOpen, rAcq, passIdx, out, hist, log>>

\* line 63: with open(path, 'w') as f  -- truncates the file; an OSError
\* (permission denied) ends the run
OpenWrite ==
    /\ pc = "open_w"
    /\ IF writable
       THEN /\ pc' = "write"
            /\ wOpen' = TRUE
            /\ wAcq' = wAcq + 1
            /\ exists' = TRUE
            /\ disk' = <<>>
       ELSE /\ pc' = "failed"
            /\ UNCHANGED <<wOpen, wAcq, exists, disk>>
    /\ UNCHANGED <<run, writable, content, rOpen, rAcq, passIdx, out, hist, log>>

\* line 64: f.write(content)
WriteAll ==
    /\ pc = "write"
    /\ disk' = content
    /\ pc' = "close_w"
    /\ UNCHANGED <<run, exists, writable, content, rOpen, wOpen, rAcq, wAcq,
                   passIdx, out, hist, log>>

\* end of the second with block
CloseWrite ==
    /\ pc = "close_w"
    /\ wOpen' = FALSE
    /\ pc' = "print2"
    /\ UNCHANGED <<run, exists, writable, disk, content, rOpen, rAcq, wAcq,
                   passIdx, out, hist, log>>

\* line 66: print("All extraction functions updated with debug support")
PrintAll ==
    /\ pc = "print2"
    /\ out' = Append(out, MsgAll)
    /\ pc' = "done"
    /\ UNCHANGED <<run, exists, writable, disk, content, rOpen, wOpen, rAcq,
                   wAcq, passIdx, hist, log>>

\* the script is started again on the file the previous run left
Rerun ==
    /\ pc \in {"done", "failed"}
    /\ run < MaxRuns
    /\ log' = Append(log, [ok |-> pc = "done", read |-> hist, msgs |-> out,
                           file |-> disk])
    /\ run' = run + 1
    /\ pc' = "open_r"
    /\ content' = <<>>
    /\ rOpen' = FALSE
    /\ wOpen' = FALSE
    /\ rAcq' = 0
    /\ wAcq' = 0
    /\ passIdx' = 0
    /\ out' = <<>>
    /\ hist' = <<>>
    /\ UNCHANGED <<exists, writable, disk>>

Next ==
    \/ OpenRead
    \/ ReadAll
    \/ CloseRead
    \/ ApplyPass
    \/ PrintUpdated
    \/ OpenWrite
    \/ WriteAll
    \/ CloseWrite
    \/ PrintAll
    \/ Rerun

Spec == Init /\ [][Next]_vars

(* ----------------------- locations in a buffer ----------------------- *)
\* the nearest `// Pattern' comment before position i is that of pattern k
UnderComment(k, buf, i) ==
    \E c \in 1..(i - 1) :
        /\ buf[c] = <<Cmt1, Cmt2, Cmt3, Cmt4>>[k]
        /\ \A m \in (c + 1)..(i - 1) : buf[m] \notin Cmts

\* position i lies in the block the comment of pattern k introduces: that
\* comment precedes i, and neither another `// Pattern' comment nor the end
\* of the function nor the start of another lies between them
InBlock(k, buf, i) ==
    \E c \in 1..(i - 1) :
        /\ buf[c] = <<Cmt1, Cmt2, Cmt3, Cmt4>>[k]
        /\ \A m \in (c + 1)..(i - 1) :
              buf[m] \notin Cmts \cup {FnOther, RetNullClose, RetNoMatchClose}

\* position i holds the `return price;' of block k's range check
OwnReturnAt(k, buf, i) ==
    /\ i >= 3 /\ i <= Len(buf)
    /\ buf[i] = RetPrice /\ buf[i - 1] \in Ws /\ buf[i - 2] = Chk
    /\ InBlock(k, buf, i)

\* position i lies in the function extractGoldPrice: behind its signature,
\* before its closing brace and before any other function
InGoldFn(buf, i) ==
    \E s \in 1..(i - 1) :
        /\ buf[s] \in GoldSig
        /\ \A m \in (s + 1)..(i - 1) :
              buf[m] \notin {FnOther, RetNullClose, RetNoMatchClose}

\* position i holds the final `return null;' and brace of extractGoldPrice
FinalAt(buf, i) ==
    /\ i >= 2 /\ i <= Len(buf)
    /\ buf[i] = RetNullClose /\ buf[i - 1] \in Ws
    /\ InGoldFn(buf, i)

\* the k-th expected pattern stands at its place in buf
Present(k, buf) ==
    CASE k = 1 -> \E i \in 1..Len(buf) : buf[i] = SigOld
      [] k = 6 -> \E i \in 1..Len(buf) : FinalAt(buf, i)
      [] OTHER -> \E i \in 1..Len(buf) : OwnReturnAt(k - 1, buf, i)

FullInput(buf) == \A k \in 1..6 : Present(k, buf)

\* what position i of the output holds when every pattern that is present
\* gets its own replacement and all other text stays
ExpectedAt(buf, i) ==
    IF buf[i] = SigOld THEN SigNew
    ELSE IF \E k \in 1..4 : OwnReturnAt(k, buf, i)
    THEN <<Tag1, Tag2, Tag3, Tag4>>[CHOOSE k \in 1..4 : OwnReturnAt(k, buf, i)]
    ELSE IF FinalAt(buf, i) THEN RetNoMatchClose
    ELSE IF FinalAt(buf, i + 1) THEN WsNl2
    ELSE buf[i]

BothMsgs == <<MsgUpdated, MsgAll>>

AfterPasses == {"print1", "open_w", "write", "close_w", "print2", "done"}

(* ------------------------------- claims ------------------------------- *)
\* C1: the passes run one after the other, each on the buffer the previous
\* one left; a pass whose pattern does not match leaves the buffer as it is,
\* raises nothing, and the run goes on with the next pass (a pass whose
\* pattern matches changes the buffer).
C1_NoMatchIsNoOp ==
    [][pc = "sub" =>
         /\ pc' \in {"sub", "print1"}
         /\ passIdx' = passIdx + 1
         /\ hist[Len(hist)] = content
         /\ hist' = Append(hist, content')
         /\ (~HasMatch(Passes[passIdx], content) => content' = content)
         /\ (HasMatch(Passes[passIdx], content) => content' # content)]_vars

C1_Witness ==
    /\ pc = "done"
    /\ \E k \in 1..NumPasses :
          ~HasMatch(Passes[k], hist[k]) /\ hist[k + 1] = hist[k]
    /\ \E k \in 1..NumPasses : hist[k + 1] # hist[k]

\* C2: a run that read and wrote the file has printed both confirmation
\* lines, whatever matched, also when nothing matched and the file written
\* equals the file read.
C2_BothLinesPrinted ==
    /\ (pc = "print2" => out = <<MsgUpdated>>)
    /\ (pc = "done" => out = BothMsgs /\ wAcq = 1 /\ disk = content)

C2_Witness ==
    /\ pc = "done"
    /\ out = BothMsgs
    /\ \A k \in 1..NumPasses : ~HasMatch(Passes[k], hist[1])
    /\ disk = hist[1]

\* C3: when the path does not exist the run fails at the read: the write is
\* not reached, no file is created at the path, and nothing is printed.
C3_MissingFileFailsAtRead ==
    /\ [](~exists =>
            /\ pc \in {"open_r", "failed"}
            /\ out = <<>> /\ wAcq = 0 /\ rAcq = 0 /\ ~wOpen
            /\ hist = <<>>)
    /\ [][~exists => ~exists' /\ disk' = disk]_vars

C3_Witness == ~exists /\ pc = "failed" /\ out = <<>> /\ wAcq = 0

\* C4: for an input that matches all the expected patterns, a second run on
\* the file the first run wrote is a no-op: every pass leaves the buffer
\* unchanged (also when other functions follow extractGoldPrice), the file
\* written equals the file read, and both messages are printed.
C4_SecondRunNoOp ==
    (/\ run = 2 /\ pc = "done"
     /\ log[1].ok
     /\ FullInput(log[1].read[1]))
    => /\ \A k \in 1..Len(hist) : hist[k] = hist[1]
       /\ disk = hist[1]
       /\ out = BothMsgs

\* C5: for an input in which exactly one expected pattern is absent, the
\* output has the replacement of each other pattern at that pattern's place
\* and the input's text everywhere else, and both messages are printed.
C5_OnlyOtherLocationsChange ==
    (/\ run = 1 /\ pc = "done"
     /\ Cardinality({k \in 1..6 : ~Present(k, hist[1])}) = 1)
    => /\ Len(disk) = Len(hist[1])
       /\ \A i \in 1..Len(disk) : disk[i] = ExpectedAt(hist[1], i)
       /\ out = BothMsgs

\* C6: for an input with the signature, the four comment blocks each with
\* its range check and `return price;', and the final `return null;', the
\* file written holds the new signature, the return of block k tagged with
\* the k-th method tag, and the final return tagged no_pattern_matched; no
\* `return price;' or `return null;' of the function is left.
C6_AllSnippetsWritten ==
    (run = 1 /\ pc = "done" /\ FullInput(hist[1]))
    => /\ Len(disk) = Len(hist[1])
       /\ \A i \in 1..Len(disk) :
            /\ (hist[1][i] = SigOld => disk[i] = SigNew)
            /\ \A k \in 1..4 :
                 OwnReturnAt(k, hist[1], i) =>
                    disk[i] = <<Tag1, Tag2, Tag3, Tag4>>[k]
            /\ (FinalAt(hist[1], i) =>
                    disk[i] = RetNoMatchClose /\ disk[i - 1] = WsNl2)
            /\ (InGoldFn(hist[1], i) =>
                    disk[i] \notin {RetPrice, RetNullClose})
       /\ \A k \in 1..4 :
            \E i \in 1..Len(disk) : disk[i] = <<Tag1, Tag2, Tag3, Tag4>>[k]

C6_Witness ==
    /\ run = 1 /\ pc = "done" /\ FullInput(hist[1])
    /\ \E i \in 1..Len(disk) : disk[i] = Tag4
    /\ \E i \in 1..Len(disk) : disk[i] = RetNoMatchClose
    /\ \E i \in 1..Len(disk) : disk[i] = RetPrice

\* C7 as stated: read, passes, write-back, then the two messages; no message
\* is printed before the write-back has completed, and a run whose write
\* fails prints nothing.
C7_NoMessageBeforeWrite ==
    /\ (out # <<>> => pc \in {"print2", "done"} /\ disk = content)
    /\ (pc = "failed" => out = <<>>)

\* C7 amended: read, passes, first message, write-back, second message; the
\* second message is not printed before the write-back has completed, and a
\* run whose write fails has printed the first message only.
C7_OrderOfSteps ==
    /\ (pc \in {"open_r", "read", "close_r", "sub", "print1"} =>
            out = <<>> /\ wAcq = 0)
    /\ (pc \in {"sub", "print1"} => rAcq = 1 /\ Len(hist) = passIdx)
    /\ (pc \in {"open_w", "write", "close_w", "print2"} =>
            out = <<MsgUpdated>> /\ Len(hist) = NumPasses + 1)
    /\ (pc \in {"close_w", "print2", "done"} => wAcq = 1 /\ disk = content)
    /\ (pc = "done" => out = BothMsgs)
    /\ (\E i \in 1..Len(out) : out[i] = MsgAll) =>
            wAcq = 1 /\ ~wOpen /\ disk = content
    /\ (pc = "failed" =>
            /\ wAcq = 0
            /\ IF rAcq = 0 THEN out = <<>>
               ELSE out = <<MsgUpdated>> /\ Len(hist) = NumPasses + 1)

C7_Witness ==
    pc = "failed" /\ rAcq = 1 /\ wAcq = 0 /\ out = <<MsgUpdated>>

\* C8: the file is opened once for reading and at most once for writing,
\* the read handle is closed before the write handle is opened (never both
\* open), and the file is not modified before all passes have completed.
C8_ScopedHandles ==
    /\ [](/\ ~(rOpen /\ wOpen)
          /\ rAcq <= 1 /\ wAcq <= 1
          /\ (pc \notin {"open_r", "failed"} => rAcq = 1)
          /\ (wAcq = 1 => rAcq = 1 /\ ~rOpen))
    /\ [][disk' # disk =>
            /\ Len(hist) = NumPasses + 1
            /\ pc \in {"open_w", "write"}
            /\ ~rOpen]_vars

C8_Witness == pc = "write" /\ wOpen /\ ~rOpen /\ rAcq = 1 /\ wAcq = 1

\* C9 as stated: a run applies exactly five passes between read and write.
C9_FivePasses ==
    pc \in AfterPasses => Len(hist) - 1 = 5

\* C9 amended: a run applies exactly six passes between the read and the
\* write (the signature, the four tagged returns, the final return), and on
\* an input with all the expected patterns each of the six makes its
\* replacement.
C9_SixPasses ==
    pc \in AfterPasses =>
        /\ Len(hist) - 1 = 6
        /\ (FullInput(hist[1]) => \A k \in 1..6 : hist[k + 1] # hist[k])

C9_Witness ==
    /\ pc = "open_w"
    /\ FullInput(hist[1])
    /\ hist[7] # hist[6]

\* C10: each tagged-return pass rewrites a `return price;' only inside the
\* block its own `// Pattern k' comment introduces: the tag of pass k is
\* never put on a return that lies behind a later `// Pattern' comment.
C10_TagStaysInOwnBlock ==
    \A k \in 1..4 :
        Len(hist) >= k + 2 =>
            /\ Len(hist[k + 2]) = Len(hist[k + 1])
            /\ \A i \in 1..Len(hist[k + 1]) :
                 hist[k + 2][i] # hist[k + 1][i] => UnderComment(k, hist[k + 1], i)
====
